---- MODULE Spec2Model ----
(***************************************************************************)
(* A model of neuralprophet/utils.py: the regularization lambda schedule,  *)
(* the seasonality configuration utilities (set_auto_seasonalities,        *)
(* season_config_to_model_dims) and print_epoch_metrics.                   *)
(*                                                                         *)
(* Time is counted in hours: a Timestamp is an integer number of hours, a  *)
(* Timedelta is an integer number of hours or NaT.  Python's None is the   *)
(* record NoneV; floats are exact rationals [n, d].                        *)
(***************************************************************************)
EXTENDS Integers, Sequences, FiniteSets, TLC

VARIABLES
    season_config,     \* the config object: [type, periods], periods an ordered mapping
    dates,             \* the dates argument of the latest set_auto_seasonalities call
    periods_before,    \* the periods mapping of the config when that call began
    periods_resolved,  \* the periods mapping after the loop of lines 145-165 of that call
    ret,               \* what that call returned: "unset", "None" or "season_config"
    err,               \* the exception that call raised: "none" or "KeyError"
    dims_arg,          \* the argument of the latest season_config_to_model_dims call
    seasonal_dims,     \* what that call returned
    op,                \* the latest operation
    sparsity,          \* get_regularization_lambda's arguments and result
    lambda_delay_epochs,
    epoch,
    lam,
    fits,              \* how many set_auto_seasonalities calls there have been
    metrics,           \* print_epoch_metrics' arguments and what it printed
    val_metrics,
    e,
    printed,
    output             \* the console: every line printed so far

vars == <<season_config, dates, periods_before, periods_resolved, ret, err, dims_arg, seasonal_dims, op, fits,
          sparsity, lambda_delay_epochs, epoch, lam,
          metrics, val_metrics, e, printed, output>>

seasonVars == <<season_config, dates, periods_before, periods_resolved, ret, err, dims_arg, seasonal_dims, fits>>
lambdaVars == <<sparsity, lambda_delay_epochs, epoch, lam>>
printVars == <<metrics, val_metrics, e, printed, output>>

\* Python's None.
NoneV == [kind |-> "None"]

(***************************************************************************)
(* Bounds of the model.                                                    *)
(***************************************************************************)
\* The longest date sequence drawn from Stamps.
MaxLen == 2
\* The largest default resolution of a period.
MaxRes == 1
\* The largest denominator of a sparsity.
MaxDen == 4
\* The largest lambda_delay_epochs.
MaxDelay == 3
\* The last epoch of the training loop.
MaxEpoch == 5
\* The most set_auto_seasonalities calls on one config object.
MaxFits == 2

(***************************************************************************)
(* Timestamps and Timedeltas.                                              *)
(***************************************************************************)
\* Hours in pd.Timedelta(days=1).
Day == 24
\* Hours in pd.Timedelta(weeks=1).
Week == 7 * Day

\* pd.NaT and a Timedelta (or Timestamp) of x hours.
NaT == [nat |-> TRUE, v |-> 0]
TD(x) == [nat |-> FALSE, v |-> x]

\* Comparisons and subtraction with pandas' NaT rules: every comparison with
\* NaT is False, every difference with NaT is NaT.
TdLt(a, b) == ~a.nat /\ ~b.nat /\ a.v < b.v
TdGe(a, b) == ~a.nat /\ ~b.nat /\ a.v >= b.v
TdSub(a, b) == IF a.nat \/ b.nat THEN NaT ELSE TD(a.v - b.v)

SetMin(S) == CHOOSE x \in S : \A y \in S : x <= y
SetMax(S) == -SetMin({-x : x \in S})

\* Series.min() and Series.max() of a series of timestamps.
SeriesMin(s) == IF s = <<>> THEN NaT ELSE TD(SetMin({s[i] : i \in DOMAIN s}))
SeriesMax(s) == IF s = <<>> THEN NaT ELSE TD(SetMax({s[i] : i \in DOMAIN s}))

\* Series.diff(): NaT first, then each element minus the one before it, in
\* the order the series is given.
SeriesDiff(s) == [i \in DOMAIN s |-> IF i = 1 THEN NaT ELSE TD(s[i] - s[i - 1])]

\* dt.values.nonzero()[0]: the positions whose value is not 0 (NaT is not 0).
NonZero(dt) == {i \in DOMAIN dt : dt[i].nat \/ dt[i].v # 0}

\* dt.iloc[positions].min(): the least value, NaT skipped; NaT if none is left.
MinSkipNaT(dt, positions) ==
    LET vals == {dt[i].v : i \in {j \in positions : ~dt[j].nat}}
    IN  IF vals = {} THEN NaT ELSE TD(SetMin(vals))

\* min_dt of line 139.
MinDt(ds) == LET dt == SeriesDiff(ds) IN MinSkipNaT(dt, NonZero(dt))

\* The keys of the auto_disable dict.
BuiltinNames == {"yearly", "weekly", "daily"}

\* AutoDisable with the daily gap test strict: min_dt > 1 day for min_dt >= 1 day.
AutoDisableDailyGt(ds) ==
    LET first == SeriesMin(ds)
        last == SeriesMax(ds)
        min_dt == MinDt(ds)
    IN  [name \in BuiltinNames |->
            CASE name = "yearly" -> TdLt(TdSub(last, first), TD(730 * Day))
              [] name = "weekly" -> TdLt(TdSub(last, first), TD(2 * Week))
                                    \/ TdGe(min_dt, TD(1 * Week))
              [] name = "daily" -> TdLt(TdSub(last, first), TD(2 * Day))
                                    \/ (~min_dt.nat /\ min_dt.v > 1 * Day)]

\* The auto_disable dict of lines 136-144.
AutoDisable(ds) ==
    LET first == SeriesMin(ds)
        last == SeriesMax(ds)
        min_dt == MinDt(ds)
    IN  [name \in BuiltinNames |->
            CASE name = "yearly" -> TdLt(TdSub(last, first), TD(730 * Day))
              [] name = "weekly" -> TdLt(TdSub(last, first), TD(2 * Week))
                                    \/ TdGe(min_dt, TD(1 * Week))
              [] name = "daily" -> TdLt(TdSub(last, first), TD(2 * Day))
                                    \/ TdGe(min_dt, TD(1 * Day))]

(***************************************************************************)
(* Period arguments: 'auto', True, False, or a number (in halves).         *)
(***************************************************************************)
ArgAuto == [kind |-> "auto", val |-> FALSE, halves |-> 0]
ArgBool(b) == [kind |-> "bool", val |-> b, halves |-> 0]
ArgNum(h) == [kind |-> "num", val |-> FALSE, halves |-> h]

\* int(arg) of a number of h halves: truncation toward zero.
IntOf(h) == IF h >= 0 THEN h \div 2 ELSE -((-h) \div 2)

\* Whether auto_disable[name] of line 150 raises KeyError for this period.
RaisesKeyError(period) == period.arg.kind = "auto" /\ period.name \notin BuiltinNames

\* The resolution one iteration of the loop of lines 145-165 gives a period
\* (one for which line 150 does not raise).
Resolution(period, auto_disable) ==
    LET arg == period.arg
        default_resolution == period.resolution
    IN  IF arg.kind = "auto"
        THEN IF auto_disable[period.name] THEN 0 ELSE default_resolution
        ELSE IF arg.kind = "bool" /\ arg.val THEN default_resolution
        ELSE IF arg.kind = "bool" /\ ~arg.val THEN 0
        ELSE IntOf(arg.halves)

\* The periods mapping when the loop of lines 145-165 ends: every period
\* resolved, or, when an iteration raises, the periods before it resolved.
ResolveLoop(periods, auto_disable) ==
    LET raising == {i \in DOMAIN periods : RaisesKeyError(periods[i])}
        stop == IF raising = {} THEN Len(periods) + 1 ELSE SetMin(raising)
    IN  [i \in DOMAIN periods |->
            IF i < stop
            THEN [periods[i] EXCEPT !.resolution = Resolution(periods[i], auto_disable)]
            ELSE periods[i]]

\* The line print writes at lines 152-156 for a period.
DisablingLine(name) == [kind |-> "disabling", name |-> name]

\* The lines the loop of lines 145-165 prints: one for every 'auto' period
\* that auto_disable disables, in the order of the mapping, up to the
\* iteration that raises.
DisablingLines(periods, auto_disable) ==
    LET raising == {i \in DOMAIN periods : RaisesKeyError(periods[i])}
        stop == IF raising = {} THEN Len(periods) + 1 ELSE SetMin(raising)
        reached == SubSeq(periods, 1, stop - 1)
        disabled == SelectSeq(reached, LAMBDA p : p.arg.kind = "auto" /\ auto_disable[p.name])
    IN  [i \in DOMAIN disabled |-> DisablingLine(disabled[i].name)]

\* The line print(season_config) of line 173 writes.
ConfigLine(config) == [kind |-> "season_config", type |-> config.type, periods |-> config.periods]

\* NewPeriods with resolution >= 0 for resolution > 0.
KeepNonNegative(periods) == SelectSeq(periods, LAMBDA p : p.resolution >= 0)

\* new_periods of lines 167-171.
NewPeriods(periods) == SelectSeq(periods, LAMBDA p : p.resolution > 0)

\* set_auto_seasonalities(ds, config): the periods after the loop, the periods
\* the config object holds when the call ends, what is returned and raised.
\* and the lines it prints.
SetAutoSeasonalities(ds, config, verbose) ==
    LET auto_disable == AutoDisable(ds)
        looped == ResolveLoop(config.periods, auto_disable)
        raised == \E i \in DOMAIN config.periods : RaisesKeyError(config.periods[i])
        new_periods == NewPeriods(looped)
        disabling == DisablingLines(config.periods, auto_disable)
    IN  IF raised
        THEN [looped |-> looped, periods |-> looped, ret |-> "unset", err |-> "KeyError",
              lines |-> disabling]
        ELSE [looped |-> looped, periods |-> new_periods,
              ret |-> IF Len(new_periods) > 0 THEN "season_config" ELSE "None",
              err |-> "none",
              lines |-> IF verbose
                        THEN disabling \o <<ConfigLine([config EXCEPT !.periods = new_periods])>>
                        ELSE disabling]

(***************************************************************************)
(* season_config_to_model_dims.                                            *)
(***************************************************************************)
\* SeasonConfigToModelDims without the doubling of line 113.
DimsNotDoubled(config) ==
    IF config = NoneV THEN NoneV
    ELSE IF Len(config.periods) < 1 THEN NoneV
    ELSE [kind |-> "dims",
          items |-> [i \in DOMAIN config.periods |->
                        [name |-> config.periods[i].name,
                         dim |-> config.periods[i].resolution]]]

\* season_config_to_model_dims(config): None, or the ordered mapping name -> dim.
SeasonConfigToModelDims(config) ==
    IF config = NoneV THEN NoneV
    ELSE IF Len(config.periods) < 1 THEN NoneV
    ELSE [kind |-> "dims",
          items |-> [i \in DOMAIN config.periods |->
                        [name |-> config.periods[i].name,
                         dim |-> IF config.type = "fourier"
                                 THEN 2 * config.periods[i].resolution
                                 ELSE config.periods[i].resolution]]]

(***************************************************************************)
(* get_regularization_lambda, on exact rationals.                          *)
(***************************************************************************)
RECURSIVE GCD(_, _)
GCD(a, b) == IF b = 0 THEN a ELSE GCD(b, a % b)

\* The number n / d (d > 0), in lowest terms.
Rat(n, d) ==
    LET g == GCD(IF n < 0 THEN -n ELSE n, d)
    IN  [kind |-> "num", n |-> n \div g, d |-> d \div g]

RMul(a, b) == Rat(a.n * b.n, a.d * b.d)
RSub(a, b) == Rat(a.n * b.d - b.n * a.d, a.d * b.d)
\* a / b for b > 0.
RDiv(a, b) == Rat(a.n * b.d, a.d * b.n)
RLt(a, b) == a.n * b.d < b.n * a.d
FromInt(k) == Rat(k, 1)

\* A Python int, and the TypeError of None < int.
IntV(k) == [kind |-> "int", v |-> k]
TypeErrorV == [kind |-> "TypeError"]

\* GetRegularizationLambda with the quadratic ramp of line 24 for the linear one.
GetRegularizationLambdaSquared(s, delay, ep) ==
    IF s # NoneV /\ RLt(s, FromInt(1))
    THEN LET full == RMul(Rat(2, 100), RSub(RDiv(FromInt(1), s), FromInt(1)))
         IN  IF delay # NoneV
             THEN IF ep = NoneV THEN TypeErrorV
                  ELSE IF ep.v < delay.v
                       THEN RMul(full, RMul(RDiv(FromInt(ep.v), FromInt(delay.v)),
                                            RDiv(FromInt(ep.v), FromInt(delay.v))))
                       ELSE full
             ELSE full
    ELSE NoneV

\* get_regularization_lambda(s, delay, ep), lines 20-27: None, a number, or
\* the TypeError of comparing an epoch of None with the delay at line 22.
GetRegularizationLambda(s, delay, ep) ==
    IF s # NoneV /\ RLt(s, FromInt(1))
    THEN LET full == RMul(Rat(2, 100), RSub(RDiv(FromInt(1), s), FromInt(1)))
         IN  IF delay # NoneV
             THEN IF ep = NoneV THEN TypeErrorV
                  ELSE IF ep.v < delay.v
                       THEN RDiv(RMul(full, FromInt(ep.v)), RMul(FromInt(1), FromInt(delay.v)))
                       ELSE full
             ELSE full
    ELSE NoneV

(***************************************************************************)
(* print_epoch_metrics.                                                    *)
(***************************************************************************)
\* "{}_val".format(key).
ValKey(key) == CASE key = "loss" -> "loss_val" [] key = "mae" -> "mae_val"

\* A dict, by its keys in insertion order.
DictV(keys) == [kind |-> "dict", keys |-> keys]

\* The columns of {**metrics, **val}: the keys of metrics, then the new keys of val.
MergedKeys(keys, valKeys) ==
    keys \o SelectSeq(valKeys, LAMBDA k : \A i \in DOMAIN keys : keys[i] # k)

\* The columns of metrics_df, lines 179-182.
Columns(m, val) ==
    IF val # NoneV /\ Len(val.keys) > 0
    THEN MergedKeys(m, [i \in DOMAIN val.keys |-> ValKey(val.keys[i])])
    ELSE m

\* The lines of DataFrame.to_string() of a frame of one row: the header and
\* the values of the row, or the three lines of an empty frame.
ToStringLines(columns, index) ==
    IF columns = <<>>
    THEN <<[kind |-> "empty", columns |-> columns, index |-> index],
           [kind |-> "empty columns", columns |-> columns, index |-> index],
           [kind |-> "empty index", columns |-> columns, index |-> index]>>
    ELSE <<[kind |-> "header", columns |-> columns, index |-> index],
           [kind |-> "values", columns |-> columns, index |-> index]>>

\* PrintedLines with e > 1 for e > 0 at line 184.
PrintedLinesAfterFirstTwo(m, val, ep) ==
    LET lines == ToStringLines(Columns(m, val), ep + 1)
    IN  IF ep > 1 THEN <<lines[2]>> ELSE lines

\* The lines print_epoch_metrics(m, val, ep) prints, lines 182-185.
PrintedLines(m, val, ep) ==
    LET lines == ToStringLines(Columns(m, val), ep + 1)
    IN  IF ep > 0 THEN <<lines[2]>> ELSE lines

(***************************************************************************)
(* Inputs.                                                                 *)
(***************************************************************************)
\* The timestamps date sequences are drawn from: 0 h, 12 h, 730 days.
Stamps == {0, Day \div 2, 730 * Day}

\* Date sequences at the thresholds of lines 141-143: weekly points over two
\* weeks, daily points over two days, gaps of 6 days over two weeks, a gap of
\* 12 hours within a week, two weeks of weekly points out of order, and a
\* gap of 12 hours within two years.
ThresholdDates ==
    {<<0, Week, 2 * Week>>, <<0, Day, 2 * Day>>, <<0, 6 * Day, 2 * Week>>,
     <<0, Day \div 2, Week>>, <<0, 2 * Week, Week>>, <<0, Day \div 2, 730 * Day>>}

\* Every non-empty date sequence of at most MaxLen stamps, in any order, with
\* duplicates, and the sequences at the thresholds.
DateInputs == UNION {[1..n -> Stamps] : n \in 1..MaxLen} \cup ThresholdDates

\* pd.date_range(periods=n, freq='D'): n daily points.
DateRange(n) == [i \in 1..n |-> (i - 1) * Day]

\* The numbers of points of the daily ranges: 10 days and 3 years, counted
\* without and with the end point.
TenDayLens == {10, 11}
ThreeYearLens == {3 * 365, 3 * 365 + 1}
RangeLens == TenDayLens \cup ThreeYearLens

\* The order in which the periods of a config are inserted.
NameOrder == <<"yearly", "weekly", "daily", "custom">>

Args == {ArgAuto, ArgBool(TRUE), ArgBool(FALSE), ArgNum(-3), ArgNum(1), ArgNum(3)}

PeriodsOf(names, defaults) ==
    {[i \in DOMAIN names |-> [name |-> names[i], arg |-> c[i][1], resolution |-> c[i][2]]] :
        c \in [DOMAIN names -> Args \X defaults]}

\* The periods mappings of at most two of the four names, in insertion order:
\* none, one period of any default resolution, or two periods of the largest.
SmallPeriods ==
    {<<>>}
    \cup UNION {PeriodsOf(<<NameOrder[i]>>, 0..MaxRes) : i \in 1..4}
    \cup UNION {PeriodsOf(<<NameOrder[p[1]], NameOrder[p[2]]>>, {MaxRes}) :
                    p \in {q \in (1..4) \X (1..4) : q[1] < q[2]}}

\* The periods mappings of the three built-in names, none of them a number.
BuiltinPeriods ==
    {[i \in 1..3 |-> [name |-> NameOrder[i], arg |-> c[i][1], resolution |-> c[i][2]]] :
        c \in [1..3 -> {ArgAuto, ArgBool(TRUE), ArgBool(FALSE)} \X (0..MaxRes)]}

Types == {"fourier", "linear"}

(***************************************************************************)
(* The seasonality configuration: set_auto_seasonalities at fit and at     *)
(* every re-fit, on the same config object.                                *)
(***************************************************************************)
\* No call of get_regularization_lambda, none of print_epoch_metrics.
LambdaIdle == sparsity = NoneV /\ lambda_delay_epochs = NoneV /\ epoch = NoneV /\ lam = NoneV
PrintIdle == metrics = <<>> /\ val_metrics = NoneV /\ e = 0 /\ printed = <<>> /\ output = <<>>
InitOthers == dims_arg = NoneV /\ seasonal_dims = NoneV /\ fits = 0 /\ LambdaIdle /\ PrintIdle

InitSeason(periodsSet, types) ==
    /\ season_config \in {[type |-> t, periods |-> ps] : t \in types, ps \in periodsSet}
    /\ dates = <<>>
    /\ periods_before = <<>>
    /\ periods_resolved = <<>>
    /\ ret = "unset"
    /\ err = "none"
    /\ op = "init"

\* One call set_auto_seasonalities(ds, season_config, verbose), at most
\* MaxFits of them on one config object.
SetAuto(ds, verbose) ==
    LET r == SetAutoSeasonalities(ds, season_config, verbose)
    IN  /\ fits < MaxFits
        /\ fits' = fits + 1
        /\ output' = output \o r.lines
        /\ season_config' = [season_config EXCEPT !.periods = r.periods]
        /\ dates' = ds
        /\ periods_before' = season_config.periods
        /\ periods_resolved' = r.looped
        /\ ret' = r.ret
        /\ err' = r.err
        /\ op' = "set_auto_seasonalities"
        /\ UNCHANGED <<dims_arg, seasonal_dims>>
        /\ UNCHANGED lambdaVars
        /\ UNCHANGED <<metrics, val_metrics, e, printed>>

Fit == \E ds \in DateInputs, verbose \in BOOLEAN : SetAuto(ds, verbose)

Init == InitSeason(SmallPeriods, {"fourier"}) /\ InitOthers

Next == Fit

Spec == Init /\ [][Next]_vars

\* Fits on daily date ranges of 10 days and of 3 years.
FitRange == \E n \in RangeLens, verbose \in BOOLEAN : SetAuto(DateRange(n), verbose)

InitRange == InitSeason(BuiltinPeriods, {"fourier"}) /\ InitOthers

NextRange == FitRange

SpecRange == InitRange /\ [][NextRange]_vars

(***************************************************************************)
(* season_config_to_model_dims on a config or on None.                     *)
(***************************************************************************)
ModelDims ==
    \E arg \in {NoneV, season_config} :
        /\ dims_arg' = arg
        /\ seasonal_dims' = SeasonConfigToModelDims(arg)
        /\ op' = "season_config_to_model_dims"
        /\ UNCHANGED <<season_config, dates, periods_before, periods_resolved, ret, err, fits>>
        /\ UNCHANGED lambdaVars
        /\ UNCHANGED printVars

InitDims == InitSeason(SmallPeriods, Types) /\ InitOthers

NextDims == ModelDims

SpecDims == InitDims /\ [][NextDims]_vars

(***************************************************************************)
(* The training loop's calls of get_regularization_lambda.                 *)
(***************************************************************************)
SeasonIdle ==
    /\ season_config = [type |-> "fourier", periods |-> <<>>]
    /\ dates = <<>> /\ periods_before = <<>> /\ periods_resolved = <<>>
    /\ ret = "unset" /\ err = "none"
    /\ dims_arg = NoneV /\ seasonal_dims = NoneV /\ fits = 0

\* The sparsities: None and the fractions of (0, 1].
Sparsities == {NoneV} \cup {Rat(n, d) : <<n, d>> \in {q \in (1..MaxDen) \X (1..MaxDen) : q[1] <= q[2]}}

Delays == {NoneV} \cup {IntV(k) : k \in 0..MaxDelay}

InitLambda ==
    /\ sparsity \in Sparsities
    /\ lambda_delay_epochs \in Delays
    /\ epoch = NoneV
    /\ lam = NoneV
    /\ op = "init"
    /\ SeasonIdle
    /\ PrintIdle

LambdaCall(ep) ==
    /\ epoch' = ep
    /\ lam' = GetRegularizationLambda(sparsity, lambda_delay_epochs, ep)
    /\ op' = "get_regularization_lambda"
    /\ UNCHANGED <<sparsity, lambda_delay_epochs>>
    /\ UNCHANGED seasonVars
    /\ UNCHANGED printVars

\* The call of the next epoch of the loop: 0, 1, 2, ...
TrainEpoch ==
    LET next == IF epoch = NoneV THEN 0 ELSE epoch.v + 1
    IN  next <= MaxEpoch /\ LambdaCall(IntV(next))

\* A call that leaves epoch at its default, None.
CallWithoutEpoch == LambdaCall(NoneV)

NextLambda == TrainEpoch \/ CallWithoutEpoch

SpecLambda == InitLambda /\ [][NextLambda]_vars

(***************************************************************************)
(* The training loop's calls of print_epoch_metrics, one per epoch.        *)
(***************************************************************************)
\* The keys of a metrics dict: none, one or two, in either insertion order.
MetricKeys == {<<>>, <<"loss">>, <<"mae">>, <<"loss", "mae">>, <<"mae", "loss">>}

InitPrint ==
    /\ metrics \in MetricKeys
    /\ val_metrics \in {NoneV} \cup {DictV(k) : k \in MetricKeys}
    /\ e = 0
    /\ printed = <<>>
    /\ output = <<>>
    /\ op = "init"
    /\ SeasonIdle
    /\ LambdaIdle

PrintEpochMetrics ==
    LET ep == IF op = "init" THEN 0 ELSE e + 1
        lines == PrintedLines(metrics, val_metrics, ep)
    IN  /\ ep <= MaxEpoch
        /\ e' = ep
        /\ printed' = lines
        /\ output' = output \o lines
        /\ op' = "print_epoch_metrics"
        /\ UNCHANGED <<metrics, val_metrics>>
        /\ UNCHANGED seasonVars
        /\ UNCHANGED lambdaVars

NextPrint == PrintEpochMetrics

SpecPrint == InitPrint /\ [][NextPrint]_vars

(***************************************************************************)
(* Properties of get_regularization_lambda.                                *)
(***************************************************************************)
LambdaCalled == op = "get_regularization_lambda"

\* A sparsity in (0, 1) with a delay > 0.
Ramped == 
    /\ sparsity # NoneV /\ RLt(sparsity, FromInt(1))
    /\ lambda_delay_epochs # NoneV /\ lambda_delay_epochs.v > 0

\* C4: for a sparsity s in (0, 1) and a delay d > 0, over the calls of epochs
\* 0, 1, 2, ...: lam is 0 at epoch 0, is 0.02 * (1/s - 1) * epoch / d at every
\* epoch < d, never decreases from one epoch to the next, and is the lam of
\* the call without delay at every epoch >= d.
C4_RampThenFull ==
    [][(op' = "get_regularization_lambda" /\ epoch' # NoneV /\ Ramped) =>
        LET d == lambda_delay_epochs.v
            k == epoch'.v
        IN  /\ lam'.kind = "num"
            /\ k = 0 => lam'.n = 0
            /\ k < d => lam'.n * (100 * sparsity.n * d)
                            = 2 * (sparsity.d - sparsity.n) * k * lam'.d
            /\ k >= d => lam' = GetRegularizationLambda(sparsity, NoneV, NoneV)
            /\ (LambdaCalled /\ epoch # NoneV /\ k = epoch.v + 1) => ~RLt(lam', lam)
      ]_vars

\* C4's case: the call at epoch == delay, after the ramp.
C4_Witness ==
    /\ LambdaCalled
    /\ sparsity = Rat(1, 2)
    /\ lambda_delay_epochs = IntV(3)
    /\ epoch = IntV(3)
    /\ lam = Rat(2, 100)

\* C5: for a sparsity of None or in (0, 1], whatever delay and epoch are,
\* given or not, the call raises nothing and returns None or a number >= 0,
\* None exactly when the sparsity is None or >= 1.
C5_NeverRaises ==
    LambdaCalled =>
        /\ lam.kind \in {"None", "num"}
        /\ lam.kind = "num" => lam.n >= 0
        /\ lam = NoneV <=> (sparsity = NoneV \/ ~RLt(sparsity, FromInt(1)))

\* C5 on the calls that give an epoch or no delay.
NeverRaisesWithEpoch ==
    (LambdaCalled /\ (epoch # NoneV \/ lambda_delay_epochs = NoneV)) =>
        /\ lam.kind \in {"None", "num"}
        /\ lam.kind = "num" => lam.n >= 0
        /\ lam = NoneV <=> (sparsity = NoneV \/ ~RLt(sparsity, FromInt(1)))

(***************************************************************************)
(* Properties of print_epoch_metrics.                                      *)
(***************************************************************************)
PrintCalled == op = "print_epoch_metrics"

\* The row has a column: metrics has a key, or val_metrics is given with one.
HasColumn == metrics # <<>> \/ (val_metrics # NoneV /\ val_metrics.keys # <<>>)

\* A header line and a values line at epoch 0, one values line at an epoch
\* > 0; in the whole output one header, the first line.
HeaderThenValues ==
    /\ e = 0 => /\ Len(printed) = 2
                /\ printed[1].kind = "header"
                /\ printed[2].kind = "values"
    /\ e > 0 => Len(printed) = 1 /\ printed[1].kind = "values"
    /\ printed[Len(printed)].index = e + 1
    /\ Len(output) = e + 2
    /\ output[1].kind = "header"
    /\ Cardinality({i \in DOMAIN output : output[i].kind = "header"}) = 1

\* The three lines of an empty frame at epoch 0, its second line ("Columns:
\* []") at an epoch > 0; no header and no values line in the whole output.
EmptyFrameLines ==
    /\ e = 0 => /\ Len(printed) = 3
                /\ printed[1].kind = "empty"
                /\ printed[2].kind = "empty columns"
                /\ printed[3].kind = "empty index"
    /\ e > 0 => Len(printed) = 1 /\ printed[1].kind = "empty columns"
    /\ Len(output) = e + 3
    /\ \A i \in DOMAIN output : output[i].kind \notin {"header", "values"}

\* C7, as stated: the call of epoch 0 prints a header line and a values line,
\* the call of an epoch > 0 prints one values line; over the calls of epochs
\* 0, 1, ... the header is printed once, as the first line of the output.
C7_HeaderOnce == PrintCalled => HeaderThenValues

\* C7, amended: that holds for every row with at least one column; for a row
\* without any column (metrics empty, val_metrics None or empty) the call of
\* epoch 0 prints the three lines of an empty frame, the call of an epoch > 0
\* prints its second line, and no header is ever printed.
C7_HeaderOnceWithColumns ==
    PrintCalled => /\ HasColumn => HeaderThenValues
                   /\ ~HasColumn => EmptyFrameLines

\* C7's case: the call of epoch 2, after the calls of epochs 0 and 1, of a
\* row with a column.
C7_Witness ==
    /\ PrintCalled
    /\ HasColumn
    /\ e = 2
    /\ Len(output) = 4
    /\ Len(printed) = 1

(***************************************************************************)
(* Properties of set_auto_seasonalities.                                   *)
(***************************************************************************)
Called == op = "set_auto_seasonalities"

Names(periods) == [i \in DOMAIN periods |-> periods[i].name]

\* The three built-in periods, each 'auto' with a positive default resolution.
AllAutoPositive(periods) ==
    /\ Names(periods) = <<"yearly", "weekly", "daily">>
    /\ \A i \in DOMAIN periods : periods[i].arg = ArgAuto /\ periods[i].resolution > 0

TenDays == {DateRange(n) : n \in TenDayLens}
ThreeYears == {DateRange(n) : n \in ThreeYearLens}

\* C1, as stated: with the three built-in periods on 'auto' and positive
\* default resolutions, ten days of daily points keep daily only, and three
\* years of daily points keep yearly, weekly and daily.
C1_DailyKept ==
    (Called /\ AllAutoPositive(periods_before)) =>
        /\ dates \in TenDays =>
                ret = "season_config" /\ Names(season_config.periods) = <<"daily">>
        /\ dates \in ThreeYears =>
                ret = "season_config"
                /\ Names(season_config.periods) = <<"yearly", "weekly", "daily">>

\* C1, amended: with the three built-in periods on 'auto' and positive default
\* resolutions, ten days of daily points drop yearly, weekly and daily (the
\* call returns None), and three years of daily points keep yearly and
\* weekly, at their default resolutions, and drop daily.
C1_DailyDropped ==
    (Called /\ AllAutoPositive(periods_before)) =>
        /\ dates \in TenDays => ret = "None" /\ season_config.periods = <<>>
        /\ dates \in ThreeYears =>
                ret = "season_config"
                /\ season_config.periods = SubSeq(periods_before, 1, 2)

\* C1's case: a fit of the three 'auto' periods on ten days of daily points.
C1_Witness ==
    /\ Called
    /\ AllAutoPositive(periods_before)
    /\ dates = DateRange(10)
    /\ ret = "None"

\* The distinct timestamps of a date sequence.
StampSet(ds) == {ds[i] : i \in DOMAIN ds}

\* The smallest strictly positive difference between consecutive dates of the
\* sorted sequence (of at least 2 distinct timestamps).
SortedMinGap(ds) ==
    SetMin({b - a : <<a, b>> \in {q \in StampSet(ds) \X StampSet(ds) : q[1] < q[2]}})

Span(ds) == SetMax(StampSet(ds)) - SetMin(StampSet(ds))

\* The auto-disable flag of a built-in name, with min_gap taken over the sorted dates.
SortedDisable(name, ds) ==
    LET gapAtLeast(x) == Cardinality(StampSet(ds)) >= 2 /\ SortedMinGap(ds) >= x
    IN  CASE name = "yearly" -> Span(ds) < 730 * Day
          [] name = "weekly" -> Span(ds) < 14 * Day \/ gapAtLeast(7 * Day)
          [] name = "daily" -> Span(ds) < 2 * Day \/ gapAtLeast(Day)

SortedResolution(period, ds) ==
    CASE period.arg.kind = "auto" ->
            IF SortedDisable(period.name, ds) THEN 0 ELSE period.resolution
      [] period.arg.kind = "bool" -> IF period.arg.val THEN period.resolution ELSE 0
      [] period.arg.kind = "num" -> IntOf(period.arg.halves)

\* C2: a call that returns gives every built-in period the resolution of the
\* rule: 'auto' -> 0 if the name's flag (yearly: span < 730 days; weekly: span
\* < 14 days or min_gap >= 7 days; daily: span < 2 days or min_gap >= 1 day)
\* holds, else the default; True -> the default; False -> 0; a number -> its
\* integer part.
C2_ResolutionRule ==
    (Called /\ err = "none") =>
        \A i \in DOMAIN periods_before :
            periods_before[i].name \in BuiltinNames =>
                periods_resolved[i].resolution = SortedResolution(periods_before[i], dates)

\* The rule of C2 on the date sequences given in ascending order.
ResolutionRuleAscending ==
    (Called /\ err = "none" /\ \A i \in 2..Len(dates) : dates[i - 1] <= dates[i]) =>
        \A i \in DOMAIN periods_before :
            periods_before[i].name \in BuiltinNames =>
                periods_resolved[i].resolution = SortedResolution(periods_before[i], dates)

\* C3: after a call returns, the config holds exactly the periods whose
\* resolved resolution is > 0, in their original order, and the call returned
\* None if and only if none is left, else the config.
C3_PrunedInOrder ==
    (Called /\ err = "none") =>
        LET kept == {i \in DOMAIN periods_before : periods_resolved[i].resolution > 0}
            after == season_config.periods
        IN  /\ Len(periods_resolved) = Len(periods_before)
            /\ Len(after) = Cardinality(kept)
            /\ \A k \in DOMAIN after :
                    /\ after[k].resolution > 0
                    /\ \E i \in kept :
                            /\ Cardinality({j \in kept : j < i}) = k - 1
                            /\ after[k] = periods_resolved[i]
                            /\ after[k].name = periods_before[i].name
            /\ ret \in {"None", "season_config"}
            /\ ret = "None" <=> Len(after) = 0

\* C3's case: a call that drops the first of two periods and keeps the second.
C3_Witness ==
    /\ Called
    /\ err = "none"
    /\ Len(periods_before) = 2
    /\ Len(season_config.periods) = 1
    /\ season_config.periods[1].name = periods_before[2].name
    /\ ret = "season_config"

\* C8: a custom period on 'auto' is never auto-disabled: the call raises
\* nothing and gives the period its default resolution.
C8_CustomAutoKept ==
    Called =>
        \A i \in DOMAIN periods_before :
            (periods_before[i].name \notin BuiltinNames /\ periods_before[i].arg = ArgAuto) =>
                /\ err = "none"
                /\ periods_resolved[i].resolution = periods_before[i].resolution

\* C9: for dates of at least 2 distinct timestamps, in any order, the min_dt
\* the call uses is the smallest strictly positive difference between
\* consecutive dates of the sorted sequence.
C9_MinGapOfSorted ==
    (Called /\ Cardinality(StampSet(dates)) >= 2) =>
        MinDt(dates) = TD(SortedMinGap(dates))

\* C9 on the date sequences given in ascending order.
MinGapAscending ==
    (Called /\ Cardinality(StampSet(dates)) >= 2
        /\ \A i \in 2..Len(dates) : dates[i - 1] <= dates[i]) =>
        MinDt(dates) = TD(SortedMinGap(dates))

\* What C10 says of one call, from the config before it to the config after it.
ShrinksAndKeeps ==
    LET before == season_config.periods
        after == season_config'.periods
    IN  /\ \A k \in DOMAIN after : \E j \in DOMAIN before : after[k].name = before[j].name
        /\ op = "set_auto_seasonalities" =>
                \A k \in DOMAIN after :
                    (after[k].arg = ArgAuto \/ after[k].arg = ArgBool(TRUE)) =>
                        \E j \in DOMAIN before :
                            /\ after[k].name = before[j].name
                            /\ after[k].resolution = before[j].resolution

\* C10: over any sequence of calls on the same config, the period names only
\* shrink, and a period still present whose argument is 'auto' or True keeps
\* the resolution the first call gave it.
C10_OnlyShrinks == [][op' = "set_auto_seasonalities" => ShrinksAndKeeps]_vars

\* C10 over the calls that return.
OnlyShrinksWhenReturning ==
    [][(op' = "set_auto_seasonalities" /\ err' = "none") => ShrinksAndKeeps]_vars

(***************************************************************************)
(* Properties of season_config_to_model_dims.                              *)
(***************************************************************************)
\* C6: the result is None for None or a config without periods; otherwise one
\* entry per period, in the config's order, of 2 * resolution for 'fourier'
\* and resolution otherwise; the config is unchanged.
C6_DimsPerPeriod ==
    op = "season_config_to_model_dims" =>
        IF dims_arg = NoneV
        THEN seasonal_dims = NoneV
        ELSE /\ season_config = dims_arg
             /\ IF Len(dims_arg.periods) = 0
                THEN seasonal_dims = NoneV
                ELSE /\ seasonal_dims # NoneV
                     /\ Len(seasonal_dims.items) = Len(dims_arg.periods)
                     /\ \A i \in DOMAIN dims_arg.periods :
                            LET r == dims_arg.periods[i].resolution
                            IN  /\ seasonal_dims.items[i].name = dims_arg.periods[i].name
                                /\ seasonal_dims.items[i].dim =
                                        IF dims_arg.type = "fourier" THEN r + r ELSE r

\* C6's case: the dims of a 'fourier' config of two periods.
C6_Witness ==
    /\ op = "season_config_to_model_dims"
    /\ dims_arg # NoneV
    /\ dims_arg.type = "fourier"
    /\ Len(dims_arg.periods) = 2
    /\ seasonal_dims # NoneV
    /\ seasonal_dims.items[2].dim = 2 * MaxRes
====
